---- MODULE Spec2Model ----
(***************************************************************************)
(* A model of ActualVim's per-view binding (src/view.py): the change       *)
(* ledger (sub_changes, last_size, vim_changes), the selection cache       *)
(* (last_sel), the push (sync_to_vim / sel_to_vim) and pull (sync_from_vim *)
(* / sel_from_vim) handlers, and press() with its key queue and busy lock. *)
(*                                                                         *)
(* The host document (sublime.View) and the engine (neo.vim) are the       *)
(* binding's collaborators.  The document is a sequence of characters with *)
(* a change counter and a selection; the engine is a buffer of lines with  *)
(* a tick, and answers press() and status() with values the binding does   *)
(* not control, so these are inputs of the actions.                        *)
(***************************************************************************)
EXTENDS Integers, Sequences, FiniteSets, TLC

\* ---------------------------------------------------------------- bounds

\* Longest host document, in characters.
MaxLen == 1
\* Cap of the host change counter (view.change_count()).
MaxChanges == 2
\* Cap of the engine's buffer tick.
MaxTick == 2
\* Cap of the queue of deferred callbacks (Edit.defer, sublime.set_timeout).
MaxDefer == 1
\* Longest document and engine text where the pull's replacement is checked.
PullLen == 2
\* Background threads calling press(), beside the host's UI thread.
NThreads == 2

\* ------------------------------------------------------------ python values

\* Python's None, for the fields that hold a number or None.
None == -1

NL == "\n"

\* The characters a document is made of: one letter where the ledger is
\* checked, a letter and the newline where the text itself is.
Letters == {"a"}
Chars == {"a", NL}

Min(a, b) == IF a < b THEN a ELSE b
Max(a, b) == IF a > b THEN a ELSE b

\* s[:n] and s[n:] of a python sequence, 0 <= n (an n past the end clamps).
Take(s, n) == SubSeq(s, 1, Min(n, Len(s)))
Drop(s, n) == SubSeq(s, Min(n, Len(s)) + 1, Len(s))

\* All sequences over S of length at most n.
SeqsUpTo(S, n) == UNION {[1..k -> S] : k \in 0..n}

\* Positions (1-based) of the newlines of text t.
NLPos(t) == {i \in 1..Len(t) : t[i] = NL}

\* str.split('\n'): the lines of t, at least one.
RECURSIVE Split(_)
Split(t) ==
    IF NLPos(t) = {} THEN <<t>>
    ELSE LET i == CHOOSE k \in NLPos(t) : \A j \in NLPos(t) : k <= j
         IN  <<SubSeq(t, 1, i - 1)>> \o Split(SubSeq(t, i + 1, Len(t)))

\* '\n'.join(lines)
RECURSIVE Join(_)
Join(ls) ==
    IF Len(ls) = 0 THEN <<>>
    ELSE IF Len(ls) = 1 THEN ls[1]
    ELSE ls[1] \o <<NL>> \o Join(Tail(ls))

\* ------------------------------------------------------- the host document

\* sublime.Region(a, b): begin(), end() and cover().
Begin(r) == Min(r[1], r[2])
End(r) == Max(r[1], r[2])
Cover(r, q) ==
    IF r[1] <= r[2] THEN <<Min(Begin(r), Begin(q)), Max(End(r), End(q))>>
    ELSE <<Max(End(r), End(q)), Min(Begin(r), Begin(q))>>

\* view.substr(Region(a, b)), the region clipped to the document.
Substr(t, a, b) ==
    SubSeq(t, Max(Min(a, b), 0) + 1, Min(Max(a, b), Len(t)))

\* view.replace(edit, Region(a, b), str) on the text.
ReplaceText(t, a, b, str) ==
    Take(t, Min(a, b)) \o str \o Drop(t, Max(a, b))

\* The selection after a replace: regions are kept inside the document.
ClampSel(sel, n) ==
    [i \in 1..Len(sel) |-> <<Min(sel[i][1], n), Min(sel[i][2], n)>>]

\* Offset of the first character of row `row` (the end of the document for a
\* row past the last one).
LineStart(t, row) ==
    IF row <= 0 THEN 0
    ELSE IF Cardinality(NLPos(t)) < row THEN Len(t)
    ELSE CHOOSE i \in NLPos(t) : Cardinality({j \in NLPos(t) : j <= i}) = row

\* view.text_point(row, col)
text_point(t, row, col) == Min(LineStart(t, row) + col, Len(t))

\* view.rowcol(point)
rowcol(t, p) ==
    LET row == Cardinality({i \in NLPos(t) : i <= p})
    IN  <<row, p - LineStart(t, row)>>

line_mutant(t, p) == <<LineStart(t, rowcol(t, p)[1]), p>>

\* view.line(point): the region of the line holding point, newline excluded.
line(t, p) ==
    LET row == rowcol(t, p)[1]
        after == {i \in NLPos(t) : i > p}
    IN  <<LineStart(t, row),
          IF after = {} THEN Len(t)
          ELSE (CHOOSE i \in after : \A j \in after : i <= j) - 1>>

\* ----------------------------------------------------- coordinate translation

\* Characters that take two bytes in UTF-8; every other one takes one.
WideChars == {"U+00E9"}
Utf8Len(c) == IF c \in WideChars THEN 2 ELSE 1

\* len(s.encode('utf-8'))
RECURSIVE EncodedLen(_)
EncodedLen(s) == IF Len(s) = 0 THEN 0 ELSE Utf8Len(s[1]) + EncodedLen(Tail(s))

\* The end of the python slice x[:n] of a sequence of len items: a negative n
\* counts from the end.
SliceEnd(len, n) == IF n < 0 THEN Max(len + n, 0) ELSE Min(n, len)

\* len(s.encode('utf-8')[:col].decode('utf-8')): the characters of s that end
\* within its first col bytes; None when byte col falls inside a character
\* (decode raises UnicodeDecodeError).
DecodedLen(s, col) ==
    LET cut == SliceEnd(EncodedLen(s), col)
        fits == {k \in 0..Len(s) : EncodedLen(Take(s, k)) <= cut}
        k == CHOOSE x \in fits : \A y \in fits : y <= x
    IN  IF k < Len(s) /\ EncodedLen(Take(s, k)) < cut THEN None ELSE k

vim_text_point(t, row, col) ==
    LET pos == text_point(t, row, 0)
        ln == Substr(t, pos, pos + col)
        vcol == DecodedLen(ln, col)
    IN  IF vcol = None THEN None ELSE text_point(t, row, vcol)

vim_rowcol_mutant(t, point) == rowcol(t, point)

\* vim_rowcol(point): the row and the byte column of a host offset.
vim_rowcol(t, point) ==
    LET rc == rowcol(t, point)
        ln == Substr(t, point - rc[2], point)
    IN  <<rc[1], EncodedLen(Take(ln, rc[2]))>>

\* neo.MODES.get(mode): the name of an engine mode tag, "none" for a tag the
\* table does not hold.
ModeTags == {"n", "i", "v", "V", "^V", "?"}
ModeName(mode) ==
    CASE mode = "n" -> "normal"
      [] mode = "i" -> "insert"
      [] mode = "v" -> "visual"
      [] mode = "V" -> "visual line"
      [] mode = "^V" -> "visual block"
      [] OTHER -> "none"

RECURSIVE BlockRows_mutant(_, _, _, _, _, _)
BlockRows_mutant(t, i, bot, left, right, swap) ==
    IF i > bot THEN <<>>
    ELSE LET ln == line(t, text_point(t, i, 0))
             end == rowcol(t, ln[2])[2]
             a == text_point(t, i, left)
             b == text_point(t, i, right)
             here == IF left <= end
                     THEN << IF swap THEN <<b, a>> ELSE <<a, b>> >>
                     ELSE <<>>
         IN  here \o BlockRows_mutant(t, i + 1, bot, left, right, swap)

\* The regions of the rows top..bot of a block selection, in row order.
RECURSIVE BlockRows(_, _, _, _, _, _)
BlockRows(t, i, bot, left, right, swap) ==
    IF i > bot THEN <<>>
    ELSE LET ln == line(t, text_point(t, i, 0))
             end == rowcol(t, ln[2])[2]
             a == text_point(t, i, left)
             b == text_point(t, i, Min(right, end))
             here == IF left <= end
                     THEN << IF swap THEN <<b, a>> ELSE <<a, b>> >>
                     ELSE <<>>
         IN  here \o BlockRows(t, i + 1, bot, left, right, swap)

\* visual(mode, a, b): the host regions of the engine's (mode, anchor, cursor),
\* a and b being 0-based (row, byte column) pairs.  Raised stands for the call
\* raising (a byte column inside a character).
Raised == << <<None, None>> >>
visual_mutant(t, mode, a, b) ==
    IF vim_text_point(t, a[1], a[2]) = None
            \/ vim_text_point(t, b[1], b[2]) = None
    THEN Raised
    ELSE << <<vim_text_point(t, a[1], a[2]), vim_text_point(t, b[1], b[2])>> >>

visual(t, mode, a, b) ==
    LET sr == a[1]
        sc == a[2]
        er == b[1]
        ec == b[2]
        pa == vim_text_point(t, sr, sc)
        pb == vim_text_point(t, er, ec)
        name == ModeName(mode)
    IN  IF pa = None \/ pb = None THEN Raised
        ELSE IF name = "visual line" THEN
            IF pa > pb THEN << <<line(t, pa)[2], line(t, pb)[1]>> >>
            ELSE << <<line(t, pa)[1], line(t, pb)[2]>> >>
        ELSE IF name = "visual" THEN
            IF pa > pb THEN << <<pa + 1, pb>> >> ELSE << <<pa, pb + 1>> >>
        ELSE IF name = "visual block" THEN
            BlockRows(t, Min(sr, er), Max(sr, er), Min(sc, ec),
                      Max(sc, ec) + 1, sc > ec)
        ELSE << <<pa, pb>> >>

\* ------------------------------------------------------------------ state

VARIABLES
    \* the host document (sublime.View)
    text,           \* its characters
    sel,            \* view.sel(): a sequence of regions <<a, b>>
    change_count,   \* view.change_count()
    actual_mode,    \* settings actual_mode and actual_intercept
    \* the engine (neo)
    loaded,         \* neo._loaded
    lines,          \* the lines of the binding's engine buffer
    tick,           \* neo.vim.buf_tick(buf)
    \* the binding (ActualVim)
    buf,            \* None, or the handle of the engine buffer
    sub_changes, last_size, vim_changes,
    last_sel,       \* <<>> for None, else <<selection>>
    block, block_hit, first_scroll,
    \* callbacks handed to Edit.defer / sublime.set_timeout, oldest first
    deferred,
    \* history: whether the document text was ever written to the engine buffer,
    \* and the engine tick the last completed pull pass saw (None before one)
    pushed, pull_tick,
    \* press() under threads: the key queue, the busy lock, where each thread
    \* is, the key and ready flag it holds, and the threads inside neo.vim.press
    keyq, busy, pc, local, delivering,
    \* history of the key queue: the keys put on it and the keys handed to
    \* neo.vim.press, each oldest first
    enqueued, delivered,
    \* the registry _views, as its set of entries (view id, binding), and the
    \* number of bindings constructed so far
    views, made,
    \* a translation asked of the binding (which one, on what arguments) and
    \* the value it gave
    query, answer

hostVars == <<text, sel, change_count, actual_mode>>
engineVars == <<loaded, lines, tick>>
bindingVars == <<buf, sub_changes, last_size, vim_changes, last_sel, block,
                 block_hit, first_scroll>>
historyVars == <<pushed, pull_tick>>
dataVars == <<hostVars, engineVars, bindingVars, deferred, historyVars>>
keyHistory == <<enqueued, delivered>>
threadVars == <<keyq, busy, pc, local, delivering, keyHistory>>
registryVars == <<views, made>>
queryVars == <<query, answer>>
vars == <<dataVars, threadVars, registryVars, queryVars>>

\* The data state as one record, so that a handler is a function of it.  The
\* record also carries what the handler did: the methods and engine calls it
\* made in order (calls), the pulls that replaced the document text (replaced)
\* and what it returned or "raise" (ret).
St ==
    [text |-> text, sel |-> sel, change_count |-> change_count,
     actual_mode |-> actual_mode, loaded |-> loaded, lines |-> lines,
     tick |-> tick, buf |-> buf, sub_changes |-> sub_changes,
     last_size |-> last_size, vim_changes |-> vim_changes,
     last_sel |-> last_sel, block |-> block, block_hit |-> block_hit,
     first_scroll |-> first_scroll, deferred |-> deferred, pushed |-> pushed,
     pull_tick |-> pull_tick, calls |-> <<>>, replaced |-> 0, ret |-> "None"]

Becomes(s) ==
    /\ text' = s.text /\ sel' = s.sel /\ change_count' = s.change_count
    /\ actual_mode' = s.actual_mode /\ loaded' = s.loaded /\ lines' = s.lines
    /\ tick' = s.tick /\ buf' = s.buf /\ sub_changes' = s.sub_changes
    /\ last_size' = s.last_size /\ vim_changes' = s.vim_changes
    /\ last_sel' = s.last_sel /\ block' = s.block /\ block_hit' = s.block_hit
    /\ first_scroll' = s.first_scroll /\ deferred' = s.deferred
    /\ pushed' = s.pushed /\ pull_tick' = s.pull_tick

\* A method or engine call made by the handler.
Call(s, name) == [s EXCEPT !.calls = Append(@, name)]

Returns(s, v) == [s EXCEPT !.ret = v]

\* Edit.defer(view, f) and sublime.set_timeout(f, ms): f runs later, in order.
Defer(s, task) == [s EXCEPT !.deferred = Append(@, task)]

Task(kind, new_sel) == [kind |-> kind, sel |-> new_sel]

\* ------------------------------------------------------ the engine (neo.vim)

\* neo.vim.buf_new(self): a fresh buffer holds one empty line.
buf_new(s) ==
    [Call(s, "buf_new") EXCEPT !.buf = 1, !.lines = << <<>> >>]

\* buf[:] = lines: the buffer is replaced and its tick advances.
buf_set(s, ls) ==
    [Call(s, "buf_set") EXCEPT !.lines = ls, !.tick = s.tick + 1,
                               !.pushed = TRUE]

\* neo.vim.press(key): the engine consumes the key; eng.lines is the buffer
\* after it (the tick advances when it differs), eng.ready the flag returned.
vim_press(s, eng) ==
    [Call(s, "press") EXCEPT
        !.lines = eng.lines,
        !.tick = IF eng.lines # s.lines THEN s.tick + 1 ELSE s.tick]

\* ------------------------------------------------------------ the host view

\* The document after a change of its text to t: the change counter advances
\* when the text changes, and the selection stays inside the document.
view_set(s, t) ==
    [s EXCEPT !.text = t,
              !.change_count = IF t # s.text THEN @ + 1 ELSE @,
              !.sel = ClampSel(s.sel, Len(t))]

\* view.replace(edit, Region(a, b), str)
view_replace(s, a, b, str) == view_set(s, ReplaceText(s.text, a, b, str))

\* ------------------------------------------------------ the binding's methods

\* ActualVim.actual
actual(s) == s.loaded /\ s.actual_mode

\* sel_changed(): its return value, and the binding after it.
sel_differs(s) == <<s.sel>> # s.last_sel
sel_changed(s) == [s EXCEPT !.last_sel = <<s.sel>>]

changed_mutant(s) ==
    \/ s.sub_changes = None \/ s.sub_changes + 1 < s.change_count
    \/ s.last_size # None /\ s.last_size # Len(s.text)

\* ActualVim.changed
changed(s) ==
    \/ s.sub_changes = None \/ s.sub_changes < s.change_count
    \/ s.last_size # None /\ s.last_size # Len(s.text)

mark_changed_mutant(s, advance) ==
    [s EXCEPT !.sub_changes = s.change_count + advance,
              !.last_size = IF advance # 0 THEN Len(s.text) ELSE None]

mark_changed(s, advance) ==
    [s EXCEPT !.sub_changes = s.change_count + advance,
              !.last_size = IF advance # 0 THEN None ELSE Len(s.text)]

\* update_view(): the engine is resized when the binding is in modal mode.
update_view(s) ==
    IF actual(s) THEN Call(Call(s, "update_view"), "resize")
    ELSE Call(s, "update_view")

\* select's end: the first selection applied schedules a second sel_from_vim.
select_scroll(s) ==
    IF s.first_scroll
    THEN Defer([s EXCEPT !.first_scroll = FALSE], Task("sel_from_vim", <<>>))
    ELSE s

\* sel_from_vim's select(view, edit): the selection is replaced and recorded
\* as last_sel.
select(s, new_sel) ==
    select_scroll(sel_changed([s EXCEPT !.sel = ClampSel(new_sel, Len(s.text))]))

\* sel_from_vim after visual(): select runs with the edit, or is deferred.
apply_sel(s, edit, new_sel) ==
    IF new_sel = Raised THEN Returns(s, "raise")
    ELSE IF edit THEN select(s, new_sel)
    ELSE Defer(s, Task("select", new_sel))

\* sel_from_vim(edit): st is what neo.vim.status() answers.
sel_from_vim(s, edit, st) ==
    IF ~s.loaded THEN s
    ELSE IF ~actual(s) THEN s
    ELSE apply_sel(Call(s, "status"), edit,
                   visual(s.text, st.mode, st.a, st.b))

sends_selection_mutant(s) == sel_differs(s) \/ changed(s)

\* The condition of sel_to_vim's push: sel_changed() and not changed.
sends_selection(s) == sel_differs(s) /\ ~changed(s)

\* sel_to_vim's push: view.sel()[0] is encoded and sent, and the engine's
\* selection read back.
send_selection(s, st) ==
    IF Len(s.sel) = 0 THEN Returns(s, "raise")
    ELSE update_view(sel_from_vim(Call(s, "select"), FALSE, st))

\* sel_to_vim(force)
sel_to_vim(s, force, st) ==
    IF ~s.loaded THEN s
    ELSE IF ~actual(s) THEN s
    ELSE IF sends_selection(s)
    THEN send_selection(Call(sel_changed(s), "force_ready"), st)
    ELSE sel_changed(s)

record_tick_mutant(s) ==
    IF s.ret = "raise" THEN s
    ELSE [Call(s, "buf_tick") EXCEPT !.vim_changes = s.tick - 1]

\* sync_to_vim's last line: vim_changes = neo.vim.buf_tick(self.buf).
record_tick(s) ==
    IF s.ret = "raise" THEN s
    ELSE [Call(s, "buf_tick") EXCEPT !.vim_changes = s.tick]

\* sync_to_vim(force)
sync_to_vim(s, force, st) ==
    IF ~s.loaded THEN s
    ELSE IF s.block THEN [s EXCEPT !.block_hit = TRUE]
    ELSE IF ~(changed(s) \/ force) \/ s.buf = None
    THEN IF s.last_size = None THEN [s EXCEPT !.last_size = Len(s.text)] ELSE s
    ELSE record_tick(
            sel_to_vim(buf_set(Call(mark_changed(s, 0), "force_ready"),
                               Split(s.text)),
                       force, st))

needs_pull_mutant(s) == s.vim_changes = None \/ s.tick >= s.vim_changes

\* The condition of update's replacement: the buffer tick advanced.
needs_pull(s) == s.vim_changes = None \/ s.tick > s.vim_changes

replace_from_mutant(s, p, str) ==
    view_set(s, ReplaceText(ReplaceText(s.text, 0, p, Take(str, p)),
                            p, Len(s.text), Drop(str, p)))

\* update's two replaces: the tail from p, then the head up to p.
replace_from(s, p, str) ==
    view_replace(view_replace(s, p, Len(s.text), Drop(str, p)),
                 0, p, Take(str, p))

\* The covering range of a selection (sel[0] covered with each later region).
RECURSIVE CoverAll(_, _)
CoverAll(r, rest) ==
    IF Len(rest) = 0 THEN r ELSE CoverAll(Cover(r, rest[1]), Tail(rest))

\* update's replacement: the tick is recorded, then the text replaced around
\* the start of the selection's covering range.
pull(s) ==
    IF Len(s.sel) = 0
    THEN Returns(Call([s EXCEPT !.vim_changes = s.tick], "buf_get"), "raise")
    ELSE [replace_from(Call([s EXCEPT !.vim_changes = s.tick], "buf_get"),
                       Begin(CoverAll(s.sel[1], Tail(s.sel))), Join(s.lines))
          EXCEPT !.replaced = @ + 1]

\* update's end: mark_changed(), sel_from_vim(edit), status_from_vim().
update_rest(s, st) ==
    IF s.ret = "raise" THEN s
    ELSE [sel_from_vim(mark_changed(s, 0), TRUE, st) EXCEPT !.pull_tick = s.tick]

\* sync_from_vim's update(view, edit), under the busy lock.
update(s, st) ==
    IF s.buf = None THEN Returns(Call(s, "buf_tick"), "raise")
    ELSE update_rest(IF needs_pull(s) THEN pull(Call(s, "buf_tick"))
                     ELSE Call(s, "buf_tick"),
                     st)

\* sync_from_vim(edit)
sync_from_vim(s, edit, st) ==
    IF ~s.loaded THEN s
    ELSE IF ~actual(s) THEN s
    ELSE IF edit THEN update(s, st)
    ELSE Defer(s, Task("update", <<>>))

\* self.sync_from_vim(edit=edit) as press makes it: the call is recorded.
call_sync_from_vim(s, edit, st) ==
    sync_from_vim(Call(s, "sync_from_vim"), edit, st)

\* activate's end: switched is what neo.vim.activate(self) answers.
activate_rest(s, switched) ==
    IF s.ret = "raise" THEN s
    ELSE IF switched THEN update_view(Call(s, "activate"))
    ELSE Call(s, "activate")

activate_mutant(s, switched, st) ==
    activate_rest(
        IF s.buf = None
        THEN sync_to_vim(buf_new(Call(s, "force_ready")), FALSE, st)
        ELSE Call(s, "force_ready"),
        switched)

\* activate()
activate(s, switched, st) ==
    IF ~s.loaded THEN s
    ELSE activate_rest(
            IF s.buf = None
            THEN sync_to_vim(buf_new(Call(s, "force_ready")), FALSE, st)
            ELSE Call(s, "force_ready"),
            switched)

\* press's end when the engine is ready: update_view(), return ready.
press_ready(s) ==
    IF s.ret = "raise" THEN s ELSE Returns(update_view(s), "True")

press_not_ready(s) == Returns(s, "False")

press_mutant(s, edit, eng, st) ==
    IF ~s.loaded THEN s
    ELSE IF s.buf = None THEN s
    ELSE IF eng.ready
    THEN press_ready(call_sync_from_vim(vim_press(s, eng), edit, st))
    ELSE press_not_ready(call_sync_from_vim(vim_press(s, eng), edit, st))

\* press(key, edit), run by one thread from start to end: the key it enqueues
\* is the one it dequeues.
press(s, edit, eng, st) ==
    IF ~s.loaded THEN s
    ELSE IF s.buf = None THEN s
    ELSE IF eng.ready
    THEN press_ready(call_sync_from_vim(vim_press(s, eng), edit, st))
    ELSE press_not_ready(vim_press(s, eng))

\* ------------------------------------------------------------------ inputs

Texts == SeqsUpTo(Letters, MaxLen)

\* What the engine buffer may hold: the lines of some text.
LineLists == {Split(t) : t \in Texts}

\* What neo.vim.status() may answer here: a cursor in normal mode, anchor and
\* cursor being the same 0-based (row, byte column) pair.
Points == {<<0, c>> : c \in 0..MaxLen}
Statuses ==
    {[mode |-> "n", a |-> p, b |-> p] : p \in Points}

\* What neo.vim.press(key) may do: leave or rewrite the buffer, ready or not.
Presses == [lines : LineLists, ready : BOOLEAN]

\* The counters stay within the model's caps.
Within(s) ==
    /\ s.change_count <= MaxChanges
    /\ s.tick <= MaxTick
    /\ Len(s.deferred) <= MaxDefer

NoThreads == [owner |-> None, count |-> 0]
NoQuery == [op |-> "none", mode |-> "", a |-> <<>>, b |-> <<>>]

\* ---------------------------------------------------- one binding, one thread

\* ActualVim.__init__ on a view, the engine loaded or not yet.
Init ==
    /\ text = <<"a">> /\ sel = << <<0, 0>> >> /\ change_count = 0
    /\ actual_mode \in BOOLEAN
    /\ loaded \in BOOLEAN /\ lines = << <<>> >> /\ tick = 0
    /\ buf = None /\ sub_changes = None /\ last_size = None
    /\ vim_changes = None /\ last_sel = <<>>
    /\ block = FALSE /\ block_hit = FALSE /\ first_scroll = TRUE
    /\ deferred = <<>>
    /\ pushed = FALSE /\ pull_tick = None
    /\ keyq = <<>> /\ busy = NoThreads /\ pc = <<>> /\ local = <<>>
    /\ delivering = {}
    /\ enqueued = <<>> /\ delivered = <<>>
    /\ views = {} /\ made = 0
    /\ query = NoQuery /\ answer = <<>>

Step(s) ==
    Within(s) /\ Becomes(s) /\ UNCHANGED <<threadVars, registryVars, queryVars>>

\* The user edits the document: the change counter advances.
HostEdit ==
    \E t \in Texts \ {text} :
        Step([St EXCEPT !.text = t,
                !.change_count = change_count + 1,
                !.sel = ClampSel(sel, Len(t))])

\* The document is reverted: its size changes, its change counter does not.
HostRevert ==
    \E t \in Texts :
        /\ Len(t) # Len(text)
        /\ Step([St EXCEPT !.text = t,
                   !.sel = ClampSel(sel, Len(t))])

\* The user moves the cursor.
HostSelect ==
    \E a \in 0..Len(text) :
        /\ << <<a, a>> >> # sel
        /\ Step([St EXCEPT !.sel = << <<a, a>> >>])

\* neovim_loaded(): the engine comes up.
Load == ~loaded /\ Step([St EXCEPT !.loaded = TRUE])

\* ActualVim.enable(enable): the view's actual_mode / actual_intercept.
SetMode == Step([St EXCEPT !.actual_mode = ~actual_mode])

\* A caller sets or clears the binding's block flag.
SetBlock == Step([St EXCEPT !.block = ~block])

Activate ==
    \E switched \in BOOLEAN, st \in Statuses :
        Step(activate(St, switched, st))

SyncToVim ==
    \E force \in BOOLEAN, st \in Statuses :
        Step(sync_to_vim(St, force, st))

SyncFromVim ==
    \E edit \in BOOLEAN, st \in Statuses :
        Step(sync_from_vim(St, edit, st))

SelToVim ==
    \E force \in BOOLEAN, st \in Statuses :
        Step(sel_to_vim(St, force, st))

SelFromVim ==
    \E edit \in BOOLEAN, st \in Statuses :
        Step(sel_from_vim(St, edit, st))

Press ==
    \E edit \in BOOLEAN, eng \in Presses, st \in Statuses :
        Step(press(St, edit, eng, st))

\* A deferred callback: update and select get an edit, a timer's sel_from_vim
\* none.
run_task(s, task, st) ==
    CASE task.kind = "update" -> update(s, st)
      [] task.kind = "select" -> select(s, task.sel)
      [] OTHER -> sel_from_vim(s, FALSE, st)

\* The oldest deferred callback runs.
RunDeferred ==
    /\ deferred # <<>>
    /\ \E st \in Statuses :
        LET task == Head(deferred)
        IN  Step(run_task([St EXCEPT !.deferred = Tail(deferred)], task, st))

Next ==
    \/ HostEdit \/ HostRevert \/ HostSelect \/ Load \/ SetMode \/ SetBlock
    \/ Activate \/ SyncToVim \/ SyncFromVim \/ SelToVim \/ SelFromVim
    \/ Press \/ RunDeferred

Spec == Init /\ [][Next]_vars

\* ------------------------------------------- the pull's replacement, any text

PullTexts == SeqsUpTo(Chars, PullLen)

\* Selections of one or two regions inside a document of n characters.
Regions(n) == (0..n) \X (0..n)
Selections(n) ==
    {<<r>> : r \in Regions(n)} \cup {<<r, q>> : r \in Regions(n), q \in Regions(n)}

\* A binding in modal mode whose engine buffer was changed by the engine since
\* the last push: any document, any selection, any engine text.
InitPull ==
    /\ text \in PullTexts /\ sel \in Selections(Len(text)) /\ change_count = 0
    /\ actual_mode = TRUE
    /\ loaded = TRUE /\ lines \in {Split(t) : t \in PullTexts} /\ tick = 1
    /\ buf = 1 /\ sub_changes = 0 /\ last_size = Len(text)
    /\ vim_changes = 0 /\ last_sel = <<sel>>
    /\ block = FALSE /\ block_hit = FALSE /\ first_scroll = FALSE
    /\ deferred = <<>>
    /\ pushed = TRUE /\ pull_tick = None
    /\ keyq = <<>> /\ busy = NoThreads /\ pc = <<>> /\ local = <<>>
    /\ delivering = {}
    /\ enqueued = <<>> /\ delivered = <<>>
    /\ views = {} /\ made = 0
    /\ query = NoQuery /\ answer = <<>>

\* sync_from_vim(edit) with an edit: update runs once.
Pull ==
    /\ pull_tick = None
    /\ \E st \in Statuses : Step(sync_from_vim(St, TRUE, st))

SpecPull == InitPull /\ [][Pull]_vars

\* ------------------------------------------------- press() and push by threads

\* Thread 0 is the host's UI thread: it runs sync_to_vim and the deferred
\* callbacks, and may press.  Threads 1..NThreads only press.
UI == 0
Threads == 0..NThreads
Keys == {"j", "x"}

Idle == [op |-> "none", key |-> "", edit |-> FALSE, ready |-> FALSE]

\* The number of press() calls followed.
MaxPresses == 3

\* The binding right after activate() of a loaded engine, every thread idle.
InitThreads ==
    /\ text = <<"a">> /\ sel = << <<0, 0>> >> /\ change_count = 0
    /\ actual_mode = TRUE
    /\ loaded = TRUE /\ lines = << <<"a">> >> /\ tick = 1
    /\ buf = 1 /\ sub_changes = 0 /\ last_size = 1
    /\ vim_changes = 1 /\ last_sel = << << <<0, 0>> >> >>
    /\ block = FALSE /\ block_hit = FALSE /\ first_scroll = TRUE
    /\ deferred = <<>>
    /\ pushed = TRUE /\ pull_tick = None
    /\ keyq = <<>> /\ busy = NoThreads
    /\ pc = [t \in Threads |-> "idle"] /\ local = [t \in Threads |-> Idle]
    /\ delivering = {}
    /\ enqueued = <<>> /\ delivered = <<>>
    /\ views = {} /\ made = 0
    /\ query = NoQuery /\ answer = <<>>

\* queue.Queue is first in, first out: put adds at the back, get takes the
\* front.
keyq_put_mutant(q, key) == <<key>> \o q

keyq_put(q, key) == Append(q, key)
keyq_get(q) == [item |-> Head(q), rest |-> Tail(q)]

can_acquire_mutant(t) == TRUE

\* threading.RLock: free, or held by the asking thread.
can_acquire(t) == busy.owner = None \/ busy.owner = t

acquire(t) == [owner |-> t, count |-> busy.count + 1]
release ==
    IF busy.count = 1 THEN NoThreads ELSE [busy EXCEPT !.count = @ - 1]

Goto(t, label) == pc' = [pc EXCEPT ![t] = label]

frozen ==
    <<hostVars, engineVars, bindingVars, historyVars, registryVars, queryVars>>

\* press(key, edit) passes its guards and enqueues the key.
PressPut(t) ==
    /\ pc[t] = "idle" /\ loaded /\ buf # None
    /\ Len(enqueued) < MaxPresses
    /\ \E key \in Keys, edit \in BOOLEAN :
        /\ keyq' = keyq_put(keyq, key)
        /\ enqueued' = Append(enqueued, key)
        /\ local' = [local EXCEPT ![t] = [op |-> "press", key |-> key,
                                          edit |-> edit, ready |-> FALSE]]
    /\ Goto(t, "lock")
    /\ UNCHANGED <<frozen, deferred, busy, delivering, delivered>>

\* with self.busy:
PressLock(t) ==
    /\ pc[t] = "lock" /\ can_acquire(t)
    /\ busy' = acquire(t)
    /\ Goto(t, "get")
    /\ UNCHANGED <<frozen, keyHistory, deferred, keyq, local, delivering>>

\* key = self.keyq.get(): waits while the queue is empty.
PressGet(t) ==
    /\ pc[t] = "get" /\ keyq # <<>>
    /\ local' = [local EXCEPT ![t].key = keyq_get(keyq).item]
    /\ keyq' = keyq_get(keyq).rest
    /\ Goto(t, "press")
    /\ UNCHANGED <<frozen, keyHistory, deferred, busy, delivering>>

\* neo.vim.press(key) is entered ...
PressCall(t) ==
    /\ pc[t] = "press"
    /\ delivering' = delivering \cup {t}
    /\ delivered' = Append(delivered, local[t].key)
    /\ Goto(t, "pressing")
    /\ UNCHANGED <<frozen, deferred, keyq, busy, local, enqueued>>

\* ... and returns the ready flag.
PressReturn(t) ==
    /\ pc[t] = "pressing"
    /\ delivering' = delivering \ {t}
    /\ \E ready \in BOOLEAN :
        /\ local' = [local EXCEPT ![t].ready = ready]
        /\ Goto(t, IF ready THEN "sync" ELSE "unlock")
    /\ UNCHANGED <<frozen, keyHistory, deferred, keyq, busy>>

\* self.sync_from_vim(edit=edit): update runs now, or is deferred.
PressSync(t) ==
    /\ pc[t] = "sync"
    /\ IF local[t].edit
       THEN Goto(t, "update_lock") /\ UNCHANGED deferred
       ELSE /\ Len(deferred) < MaxDefer
            /\ deferred' = Append(deferred, Task("update", <<>>))
            /\ Goto(t, "view")
    /\ UNCHANGED <<frozen, keyHistory, keyq, busy, local, delivering>>

\* update's with self.busy:
UpdateLock(t) ==
    /\ pc[t] = "update_lock" /\ can_acquire(t)
    /\ busy' = acquire(t)
    /\ Goto(t, "update")
    /\ UNCHANGED <<frozen, keyHistory, deferred, keyq, local, delivering>>

\* update's body ends and its hold of the lock is given back.
UpdateDone(t) ==
    /\ pc[t] = "update"
    /\ busy' = release
    /\ IF local[t].op = "press"
       THEN Goto(t, "view") /\ UNCHANGED local
       ELSE Goto(t, "idle") /\ local' = [local EXCEPT ![t] = Idle]
    /\ UNCHANGED <<frozen, keyHistory, deferred, keyq, delivering>>

\* self.update_view()
PressView(t) ==
    /\ pc[t] = "view"
    /\ Goto(t, "unlock")
    /\ UNCHANGED <<frozen, keyHistory, deferred, keyq, busy, local, delivering>>

\* press leaves its with block and returns ready.
PressUnlock(t) ==
    /\ pc[t] = "unlock"
    /\ busy' = release
    /\ local' = [local EXCEPT ![t] = Idle]
    /\ Goto(t, "idle")
    /\ UNCHANGED <<frozen, keyHistory, deferred, keyq, delivering>>

\* The UI thread runs the oldest deferred update.
RunUpdate ==
    /\ pc[UI] = "idle" /\ deferred # <<>> /\ Head(deferred).kind = "update"
    /\ deferred' = Tail(deferred)
    /\ local' = [local EXCEPT ![UI].op = "deferred"]
    /\ Goto(UI, "update_lock")
    /\ UNCHANGED <<frozen, keyHistory, keyq, busy, delivering>>

\* The UI thread's sync_to_vim passes its guards (a push is needed) ...
PushStart ==
    /\ pc[UI] = "idle" /\ loaded /\ ~block /\ buf # None
    /\ local' = [local EXCEPT ![UI].op = "sync_to_vim"]
    /\ Goto(UI, "mark_changed")
    /\ UNCHANGED <<frozen, keyHistory, deferred, keyq, busy, delivering>>

\* ... and runs line by line: mark_changed(), buf[:] = text, sel_to_vim(),
\* vim_changes = buf_tick.
PushLine ==
    /\ pc[UI] \in {"mark_changed", "buf_set", "sel_to_vim", "vim_changes"}
    /\ Goto(UI, CASE pc[UI] = "mark_changed" -> "buf_set"
                  [] pc[UI] = "buf_set" -> "sel_to_vim"
                  [] pc[UI] = "sel_to_vim" -> "vim_changes"
                  [] OTHER -> "idle")
    /\ local' = IF pc[UI] = "vim_changes" THEN [local EXCEPT ![UI] = Idle]
                ELSE local
    /\ UNCHANGED <<frozen, keyHistory, deferred, keyq, busy, delivering>>

NextThreads ==
    \/ \E t \in Threads :
        \/ PressPut(t) \/ PressLock(t) \/ PressGet(t) \/ PressCall(t)
        \/ PressReturn(t) \/ PressSync(t) \/ UpdateLock(t) \/ UpdateDone(t)
        \/ PressView(t) \/ PressUnlock(t)
    \/ RunUpdate \/ PushStart \/ PushLine

SpecThreads == InitThreads /\ [][NextThreads]_vars

\* ------------------------------------------------ the registry of bindings

MaxViews == 2
MaxObjects == 2
MaxBindings == 3

\* A view handed to get/remove: its id, which view object it is, and whether
\* its settings hold actual_proxy.
ViewIds == 1..MaxViews
ViewObjects == 1..MaxObjects
Views == [id : ViewIds, obj : ViewObjects, proxy : BOOLEAN]

\* ActualVim.__init__(view): with actual_proxy set it returns before any
\* attribute is assigned, so the binding has no `view` (has_view false).
Binding(view, serial) ==
    [serial |-> serial, has_view |-> ~view.proxy,
     view |-> IF view.proxy THEN None ELSE view.obj,
     view_id |-> IF view.proxy THEN None ELSE view.id]

Registry == [views |-> views, made |-> made, ret |-> [kind |-> "None"]]

Registered(reg, vid) == {e \in reg.views : e.vid = vid}
Lookup(reg, vid) == (CHOOSE e \in Registered(reg, vid) : TRUE).m

\* _views[vid] = m
SetItem(reg, vid, m) ==
    [reg EXCEPT !.views = (@ \ Registered(reg, vid)) \cup {[vid |-> vid, m |-> m]}]

\* _views.pop(vid, None)
Pop(reg, vid) == [reg EXCEPT !.views = @ \ Registered(reg, vid)]

Gives(reg, m) == [reg EXCEPT !.ret = [kind |-> "binding", m |-> m]]
GivesNone(reg) == [reg EXCEPT !.ret = [kind |-> "None"]]
Raises(reg) == [reg EXCEPT !.ret = [kind |-> "raise"]]

\* get's first branch: cls(view), registered unless it raised.
create_binding(reg, view, raises) ==
    IF raises THEN GivesNone(reg)
    ELSE Gives(SetItem([reg EXCEPT !.made = @ + 1], view.id,
                       Binding(view, reg.made + 1)),
               Binding(view, reg.made + 1))

\* get's elif on a registered binding m: m.view is read when exact.
found_binding(reg, m, view, exact) ==
    IF exact
    THEN IF ~m.has_view THEN Raises(reg)
         ELSE IF m.view # view.obj THEN GivesNone(reg)
         ELSE Gives(reg, m)
    ELSE Gives(reg, m)

\* ActualVim.get(view, create, exact); raises: whether cls(view) raises.
get(reg, view, create, exact, raises) ==
    IF Registered(reg, view.id) = {}
    THEN IF create THEN create_binding(reg, view, raises) ELSE GivesNone(reg)
    ELSE found_binding(reg, Lookup(reg, view.id), view, exact)

\* ActualVim.remove(view)
remove(reg, view) == Pop(reg, view.id)

\* close() of the binding m: self.buf and self.view are read.
close(reg, m) ==
    IF ~m.has_view THEN Raises(reg) ELSE Pop(reg, m.view_id)

InitRegistry ==
    /\ text = <<"a">> /\ sel = << <<0, 0>> >> /\ change_count = 0
    /\ actual_mode = TRUE
    /\ loaded \in BOOLEAN /\ lines = << <<>> >> /\ tick = 0
    /\ buf = None /\ sub_changes = None /\ last_size = None
    /\ vim_changes = None /\ last_sel = <<>>
    /\ block = FALSE /\ block_hit = FALSE /\ first_scroll = TRUE
    /\ deferred = <<>>
    /\ pushed = FALSE /\ pull_tick = None
    /\ keyq = <<>> /\ busy = NoThreads /\ pc = <<>> /\ local = <<>>
    /\ delivering = {}
    /\ enqueued = <<>> /\ delivered = <<>>
    /\ views = {} /\ made = 0
    /\ query = NoQuery /\ answer = <<>>

RegistryBecomes(reg) ==
    /\ reg.made <= MaxBindings
    /\ views' = reg.views /\ made' = reg.made
    /\ UNCHANGED <<dataVars, threadVars, queryVars>>

Get ==
    \E view \in Views, create \in BOOLEAN, exact \in BOOLEAN,
       raises \in BOOLEAN :
        RegistryBecomes(get(Registry, view, create, exact, raises))

Remove == \E view \in Views : RegistryBecomes(remove(Registry, view))

\* close() of a registered binding.
Close == \E e \in views : RegistryBecomes(close(Registry, e.m))

NextRegistry == Get \/ Remove \/ Close

SpecRegistry == InitRegistry /\ [][NextRegistry]_vars

\* ------------------------------------------- translations, on any document

VisualLen == 3
MaxRowLen == 7

VisualChars == {"a", "U+00E9", NL}

Row(n) == [i \in 1..n |-> "a"]

\* Documents of five rows: rows 0 and 1 short, rows 2 and 4 of six characters
\* or more, row 3 of four characters or fewer.
BlockDocs ==
    {Join(<<Row(0), Row(1), Row(n2), Row(n3), Row(n4)>>) :
        n2 \in {6, MaxRowLen}, n3 \in {2, 4}, n4 \in {6, MaxRowLen}}

VisualTexts == SeqsUpTo(VisualChars, VisualLen) \cup BlockDocs

NumRows(t) == Cardinality(NLPos(t)) + 1
RowText(t, row) == Split(t)[row + 1]

\* The (row, byte column) pairs of document t, a byte column inside a
\* character included.
Positions(t) ==
    {rc \in (0..(NumRows(t) - 1)) \X (0..MaxRowLen) :
        rc[2] <= EncodedLen(RowText(t, rc[1]))}

\* Whether byte column col of row `row` is at the start of a character or at
\* the end of the row.
OnBoundary(t, row, col) ==
    \E k \in 0..Len(RowText(t, row)) : EncodedLen(Take(RowText(t, row), k)) = col

OneBased(rc) == <<rc[1] + 1, rc[2] + 1>>
ZeroBased(rc) == <<rc[1] - 1, rc[2] - 1>>

\* python's a > b on (row, column) tuples
PairGt(a, b) == a[1] > b[1] \/ (a[1] = b[1] /\ a[2] > b[2])

\* sel_to_vim's adjustment of the two 1-based ends a and b of a region.
encode_ends(a, b) ==
    IF PairGt(a, b) THEN [mode |-> "v", a |-> <<a[1], a[2] - 1>>, b |-> b]
    ELSE IF PairGt(b, a) THEN [mode |-> "v", a |-> a, b |-> <<b[1], b[2] - 1>>]
    ELSE [mode |-> "v", a |-> a, b |-> b]

\* The engine's status for what select was handed, 0-based, decoded by
\* visual.
decoded(t, args) == visual(t, args.mode, ZeroBased(args.a), ZeroBased(args.b))

\* What sel_to_vim hands to neo.vim.select for the region r, no drag_select
\* set: the 1-based cursor alone for an empty region, else mode 'v' with the
\* later end's column decreased by one.
select_args(t, r) ==
    IF r[1] = r[2]
    THEN [mode |-> "n", a |-> OneBased(vim_rowcol(t, r[2])),
          b |-> OneBased(vim_rowcol(t, r[2]))]
    ELSE encode_ends(OneBased(vim_rowcol(t, r[1])),
                     OneBased(vim_rowcol(t, r[2])))

\* What sel_to_vim hands to neo.vim.select for the selection s (a sequence of
\* regions) under drag_select 'columns': the 1-based start of the last region
\* as the anchor and the 1-based end of the first region as the cursor, the
\* cursor's column decreased by one when it is the greater.
select_columns(t, s) ==
    [mode |-> "^V",
     a |-> OneBased(vim_rowcol(t, s[Len(s)][1])),
     b |-> IF OneBased(vim_rowcol(t, s[1][2]))[2]
                > OneBased(vim_rowcol(t, s[Len(s)][1]))[2]
           THEN <<OneBased(vim_rowcol(t, s[1][2]))[1],
                  OneBased(vim_rowcol(t, s[1][2]))[2] - 1>>
           ELSE OneBased(vim_rowcol(t, s[1][2]))]

InitVisual ==
    /\ text \in VisualTexts /\ sel = << <<0, 0>> >> /\ change_count = 0
    /\ actual_mode = TRUE
    /\ loaded = TRUE /\ lines = << <<>> >> /\ tick = 0
    /\ buf = None /\ sub_changes = None /\ last_size = None
    /\ vim_changes = None /\ last_sel = <<>>
    /\ block = FALSE /\ block_hit = FALSE /\ first_scroll = TRUE
    /\ deferred = <<>>
    /\ pushed = FALSE /\ pull_tick = None
    /\ keyq = <<>> /\ busy = NoThreads /\ pc = <<>> /\ local = <<>>
    /\ delivering = {}
    /\ enqueued = <<>> /\ delivered = <<>>
    /\ views = {} /\ made = 0
    /\ query = NoQuery /\ answer = <<>>

Asked(q, ans) ==
    /\ query' = q /\ answer' = ans
    /\ UNCHANGED <<dataVars, threadVars, registryVars>>

VimRowCol ==
    /\ query = NoQuery
    /\ \E p \in 0..Len(text) :
            Asked([op |-> "vim_rowcol", mode |-> "", a |-> <<p>>, b |-> <<>>],
                  vim_rowcol(text, p))

VimTextPoint ==
    /\ query = NoQuery
    /\ \E rc \in Positions(text) :
            Asked([op |-> "vim_text_point", mode |-> "", a |-> rc, b |-> <<>>],
                  <<vim_text_point(text, rc[1], rc[2])>>)

Visual ==
    /\ query = NoQuery
    /\ \E mode \in ModeTags, a \in Positions(text), b \in Positions(text) :
            Asked([op |-> "visual", mode |-> mode, a |-> a, b |-> b],
                  visual(text, mode, a, b))

\* sel_to_vim's encoding of one region, decoded again by visual.
SelectAndBack ==
    /\ query = NoQuery
    /\ \E p \in 0..Len(text), q \in 0..Len(text) :
            Asked([op |-> "select", mode |-> select_args(text, <<p, q>>).mode,
                   a |-> <<p>>, b |-> <<q>>],
                  decoded(text, select_args(text, <<p, q>>)))

\* A block selection as visual gives it for (a, b), encoded by sel_to_vim
\* under drag_select 'columns' and decoded again by visual.
SelectColumnsAndBack ==
    /\ query = NoQuery
    /\ \E a \in Positions(text), b \in Positions(text) :
        /\ visual(text, "^V", a, b) \notin {Raised, <<>>}
        /\ Asked([op |-> "select_columns", mode |-> "^V", a |-> a, b |-> b],
                 decoded(text, select_columns(text, visual(text, "^V", a, b))))

NextVisual ==
    VimRowCol \/ VimTextPoint \/ Visual \/ SelectAndBack
        \/ SelectColumnsAndBack

SpecVisual == InitVisual /\ [][NextVisual]_vars

\* ------------------------------------------------------------------ claims

HasCall(r, name) == \E i \in 1..Len(r.calls) : r.calls[i] = name

\* Some call `name` of r is made after a call `first` and before a call `last`.
CallBetween(r, first, name, last) ==
    \E i, j, k \in 1..Len(r.calls) :
        /\ i < j /\ j < k
        /\ r.calls[i] = first /\ r.calls[j] = name /\ r.calls[k] = last

\* C1: engine key deliveries never overlap: at most one thread is inside
\* neo.vim.press at a time, and a thread that is about to dequeue a key, or is
\* delivering one, holds the binding's busy lock.
C1_DeliveriesUnderLock ==
    /\ Cardinality(delivering) <= 1
    /\ \A t \in Threads :
        (pc[t] \in {"get", "press", "pressing"} \/ t \in delivering)
            => busy.owner = t

\* A thread delivers its key while another one, its key enqueued, waits for
\* the lock.
C1_Witness ==
    \E t, u \in Threads :
        /\ t # u /\ t \in delivering /\ pc[u] = "lock" /\ Len(keyq) > 0

\* C2: at most one push/pull sequence runs at a time: while one thread is
\* inside a pull (update) no other thread is in the middle of a push
\* (sync_to_vim's lines) or inside another pull.
C2_OnePassAtATime ==
    \A t, u \in Threads :
        (t # u /\ pc[t] = "update")
            => pc[u] \notin {"buf_set", "sel_to_vim", "vim_changes", "update"}

\* C3: once a pull pass has completed, a further sync_from_vim (called with an
\* edit, or its deferred update) replaces no document text as long as the
\* engine tick has not advanced since that pass.
C3_SecondPullReplacesNothing ==
    (loaded /\ pull_tick # None /\ pull_tick = tick)
        => \A st \in Statuses :
            /\ update(St, st).replaced = 0
            /\ sync_from_vim(St, TRUE, st).replaced = 0
            /\ update(St, st).text = text

\* A pull pass completed at the current tick, and the document has since
\* come to differ from the engine buffer.
C3_Witness ==
    /\ loaded /\ actual_mode /\ buf # None
    /\ pull_tick # None /\ pull_tick = tick
    /\ text # Join(lines)

\* C4: `changed` is false right after mark_changed() and in the state it
\* leaves (sub_changes at the change counter, last_size at the size); it is
\* true whenever the change counter is above the recorded sub_changes, and
\* whenever the recorded last_size differs from the size while the counter has
\* not advanced (a revert).
C4_ChangedPredicate ==
    /\ ~changed(mark_changed(St, 0))
    /\ (sub_changes = change_count /\ last_size = Len(text)) => ~changed(St)
    /\ (sub_changes # None /\ change_count > sub_changes) => changed(St)
    /\ (sub_changes # None /\ change_count <= sub_changes
            /\ last_size # None /\ last_size # Len(text)) => changed(St)

\* The revert case: the counter is where the last push left it, the size is
\* not.
C4_Witness ==
    /\ pushed /\ sub_changes = change_count
    /\ last_size # None /\ last_size # Len(text)
    /\ changed(St)

\* C5: a pull pass completes only on a binding that has pushed its document
\* text to the engine buffer before.
C5_PushBeforePull == (pull_tick # None) => pushed

\* C6: when the tick advanced, the two replaces leave the document text equal
\* to the engine buffer's lines joined by newline.
C6_PullMakesTextsEqual == (pull_tick # None) => text = Join(lines)

\* A pull whose two replaces both changed the document.
C6_Witness == pull_tick # None /\ text = Join(lines) /\ change_count = 2

\* The case of C7: modal mode, a buffer, and a tick not past vim_changes.
TickNotAdvanced ==
    /\ loaded /\ actual_mode /\ buf # None
    /\ vim_changes # None /\ tick <= vim_changes

C8_PushSendsSelection ==
    (loaded /\ actual_mode)
        => \A force \in BOOLEAN, st \in Statuses :
            LET r == sync_to_vim(St, force, st)
            IN  HasCall(r, "buf_set")
                    => CallBetween(r, "buf_set", "select", "buf_tick")

\* The case of C9: modal mode, and a selection to send.
Modal == loaded /\ actual_mode /\ Len(sel) > 0

C10_PressSyncsIffReady ==
    (loaded /\ buf # None)
        => \A edit \in BOOLEAN, eng \in Presses, st \in Statuses :
            LET r == press(St, edit, eng, st)
            IN  /\ HasCall(r, "sync_from_vim") <=> eng.ready
                /\ HasCall(r, "update_view") <=> eng.ready
                /\ r.ret = (IF eng.ready THEN "True" ELSE "False")
                /\ ~eng.ready
                    => /\ r.text = text /\ r.sel = sel
                       /\ r.sub_changes = sub_changes
                       /\ r.last_size = last_size
                       /\ r.vim_changes = vim_changes
                       /\ r.last_sel = last_sel /\ r.deferred = deferred

\* A key that rewrites the engine buffer: pulled into the document at once
\* when the engine is ready, not at all when it is not.
C10_Witness ==
    /\ loaded /\ actual_mode /\ buf # None /\ pushed
    /\ \E eng \in Presses, st \in Statuses :
        /\ eng.ready /\ eng.lines # lines
        /\ press(St, TRUE, eng, st).text # text
        /\ press(St, TRUE, [eng EXCEPT !.ready = FALSE], st).text = text

\* C11: while the engine is not loaded, activate, sync_to_vim, sync_from_vim,
\* sel_to_vim, sel_from_vim and press return without raising, make no engine
\* call and leave the binding, the document text and the selection as they
\* are, whatever their arguments.
C11_UnloadedIsNoOp ==
    ~loaded
        => \A flag \in BOOLEAN, eng \in Presses, st \in Statuses :
            /\ activate(St, flag, st) = St
            /\ sync_to_vim(St, flag, st) = St
            /\ sync_from_vim(St, flag, st) = St
            /\ sel_to_vim(St, flag, st) = St
            /\ sel_from_vim(St, flag, st) = St
            /\ press(St, flag, eng, st) = St

\* The engine is not loaded while the document was edited, the cursor moved
\* and the block flag set: a push would be due.
C11_Witness ==
    /\ ~loaded /\ change_count > 0 /\ block /\ actual_mode
    /\ sel # << <<0, 0>> >>

\* C12: the registry holds at most one binding per view id; get on a view id
\* that has a binding creates none, leaves the registry as it is and returns
\* the registered binding (or None when exact and the view object differs);
\* get whose construction raises returns None and leaves the registry as it
\* is.
C12_OneBindingPerView ==
    /\ \A vid \in ViewIds : Cardinality(Registered(Registry, vid)) <= 1
    /\ \A view \in Views, create \in BOOLEAN, exact \in BOOLEAN,
          raises \in BOOLEAN :
        LET r == get(Registry, view, create, exact, raises)
        IN  /\ Registered(Registry, view.id) # {}
                => /\ r.views = views /\ r.made = made
                   /\ \/ r.ret = [kind |-> "binding",
                                  m |-> Lookup(Registry, view.id)]
                      \/ /\ exact /\ r.ret = [kind |-> "None"]
                         /\ Lookup(Registry, view.id).view # view.obj
            /\ (Registered(Registry, view.id) = {} /\ create /\ raises)
                => r.ret = [kind |-> "None"] /\ r.views = views

\* C13: the coordinate translations undo each other: a host offset turned
\* into (row, byte column) by vim_rowcol comes back from vim_text_point, and a
\* (row, byte column) on a character boundary turned into an offset by
\* vim_text_point comes back from vim_rowcol, multi-byte characters included.
C13_RoundTrip ==
    /\ query.op = "vim_rowcol"
        => vim_text_point(text, answer[1], answer[2]) = query.a[1]
    /\ (query.op = "vim_text_point"
            /\ OnBoundary(text, query.a[1], query.a[2]))
        => vim_rowcol(text, answer[1]) = query.a

\* An offset behind a two-byte character: its byte column is past its
\* character column.
C13_Witness ==
    /\ query.op = "vim_rowcol"
    /\ answer[2] > rowcol(text, query.a[1])[2]
    /\ vim_text_point(text, answer[1], answer[2]) = query.a[1]

\* C14: a single host region, forward or reversed, of any length, encoded by
\* sel_to_vim and decoded by visual, comes back as the same region, direction
\* included.
C14_SelectionRoundTrip ==
    query.op = "select" => answer = << <<query.a[1], query.b[1]>> >>

\* The case of a visual decode whose anchor and cursor are on character
\* boundaries of their rows.
AskedVisual(mode) ==
    /\ query.op = "visual" /\ query.mode = mode
    /\ OnBoundary(text, query.a[1], query.a[2])
    /\ OnBoundary(text, query.b[1], query.b[2])

RowStart(t, row) == LineStart(t, row)
RowEnd(t, row) == LineStart(t, row) + Len(RowText(t, row))

\* C15: in visual line mode visual() returns one region from the start of the
\* smaller of the anchor and cursor rows to the end of the larger one,
\* reversed when the anchor is after the cursor: whatever the columns, the
\* region is the one the two rows and the order of anchor and cursor give.
C15_VisualLine ==
    AskedVisual("V")
        => LET lo == Min(query.a[1], query.b[1])
               hi == Max(query.a[1], query.b[1])
           IN  answer = IF PairGt(query.a, query.b)
                        THEN << <<RowEnd(text, hi), RowStart(text, lo)>> >>
                        ELSE << <<RowStart(text, lo), RowEnd(text, hi)>> >>

\* The anchor two rows below the cursor, both in the middle of their rows.
C15_Witness ==
    /\ AskedVisual("V")
    /\ query.a[1] = query.b[1] + 2
    /\ query.a[2] > 0 /\ query.a[2] < EncodedLen(RowText(text, query.a[1]))
    /\ query.b[2] > 0 /\ query.b[2] < EncodedLen(RowText(text, query.b[1]))
    /\ answer = << <<RowEnd(text, query.a[1]), RowStart(text, query.b[1])>> >>

\* The rectangle of a block decode: its rows, its left column and its right
\* edge (one past the larger column).
BlockTop == Min(query.a[1], query.b[1])
BlockBot == Max(query.a[1], query.b[1])
BlockLeft == Min(query.a[2], query.b[2])
BlockRight == Max(query.a[2], query.b[2]) + 1

\* The rows of the rectangle that reach its left edge, in row order.
BlockKept ==
    SelectSeq([i \in 1..(BlockBot - BlockTop + 1) |-> BlockTop + i - 1],
              LAMBDA row : Len(RowText(text, row)) >= BlockLeft)

\* C16: in visual block mode visual() returns, in row order, one region for
\* each row of the rectangle at least as long as the left edge and none for a
\* shorter row; a region runs from column left of its row to the smaller of
\* the right edge and the row's length, its ends swapped when the anchor
\* column is greater than the cursor column.
C16_VisualBlock ==
    AskedVisual("^V")
        => /\ Len(answer) = Len(BlockKept)
           /\ \A k \in 1..Len(BlockKept) :
                LET from == RowStart(text, BlockKept[k]) + BlockLeft
                    to == RowStart(text, BlockKept[k])
                            + Min(BlockRight, Len(RowText(text, BlockKept[k])))
                IN  answer[k] = IF query.a[2] > query.b[2]
                                THEN <<to, from>> ELSE <<from, to>>

\* A rectangle of three rows or more with a row skipped, a row clipped and a
\* row that holds the whole width.
C16_Witness ==
    /\ AskedVisual("^V")
    /\ BlockBot - BlockTop >= 2
    /\ Len(answer) < BlockBot - BlockTop + 1
    /\ \E k, l \in 1..Len(answer) :
        /\ End(answer[k]) - Begin(answer[k]) = BlockRight - BlockLeft
        /\ End(answer[l]) - Begin(answer[l]) < BlockRight - BlockLeft

\* The rectangle rows 2 to 4, columns 3 to 6, rows 2 and 4 being six
\* characters long or more.
Rows2To4 ==
    /\ AskedVisual("^V")
    /\ NumRows(text) >= 5
    /\ BlockTop = 2 /\ BlockBot = 4 /\ BlockLeft = 3 /\ BlockRight = 7
    /\ Len(RowText(text, 2)) >= 6 /\ Len(RowText(text, 4)) >= 6

InRow(r, row) ==
    /\ Begin(r) >= RowStart(text, row) /\ End(r) <= RowEnd(text, row)

\* C17 as stated: with row 3 only 4 characters long, the decode of rows 2 to
\* 4, columns 3 to 6, returns exactly 2 regions, one in row 2 and one in row
\* 4, and none for row 3.
C17_Row3Skipped ==
    (Rows2To4 /\ Len(RowText(text, 3)) = 4)
        => /\ Len(answer) = 2
           /\ InRow(answer[1], 2) /\ InRow(answer[2], 4)

\* C17 amended: with row 3 only 4 characters long the decode returns 3
\* regions, the one of row 3 clipped to columns 3 to 4; with row 3 only 2
\* characters long (shorter than the left edge) it returns exactly 2 regions,
\* one in row 2 and one in row 4.
C17_Row3Clipped ==
    /\ (Rows2To4 /\ Len(RowText(text, 3)) = 4)
        => /\ Len(answer) = 3
           /\ InRow(answer[1], 2) /\ InRow(answer[3], 4)
           /\ Begin(answer[2]) = RowStart(text, 3) + 3
           /\ End(answer[2]) = RowStart(text, 3) + 4
    /\ (Rows2To4 /\ Len(RowText(text, 3)) = 2)
        => /\ Len(answer) = 2
           /\ InRow(answer[1], 2) /\ InRow(answer[2], 4)

\* The rectangle decoded over a document whose row 3 has 4 characters.
C17_Witness ==
    /\ Rows2To4 /\ Len(RowText(text, 3)) = 4
    /\ Len(answer) = 3 /\ InRow(answer[2], 3)

\* The engine reports anchor == cursor, on a character boundary.
SameSpot ==
    /\ query.op = "visual" /\ query.a = query.b
    /\ OnBoundary(text, query.a[1], query.a[2])

Spot == vim_text_point(text, query.a[1], query.a[2])

\* C18 as stated: whenever anchor == cursor, visual() returns one zero-width
\* region at the translated offset, whatever the mode tag.
C18_OneEmptyRegion == SameSpot => answer = << <<Spot, Spot>> >>

\* C18 amended: with anchor == cursor, visual() returns one zero-width region
\* at the translated offset in normal mode, insert mode and under an
\* unrecognized tag; in visual mode it returns the one-character region from
\* that offset, in visual line mode the whole row, and in visual block mode
\* the one column of the row (no region when the row is shorter than the
\* column, an empty one when the row ends at it).
C18_OneRegionByMode ==
    SameSpot
        => LET row == query.a[1]
               name == ModeName(query.mode)
           IN  /\ name \in {"normal", "insert", "none"}
                    => answer = << <<Spot, Spot>> >>
               /\ name = "visual" => answer = << <<Spot, Spot + 1>> >>
               /\ name = "visual line"
                    => answer = << <<RowStart(text, row), RowEnd(text, row)>> >>
               /\ name = "visual block"
                    => answer =
                        IF Len(RowText(text, row)) < query.a[2] THEN <<>>
                        ELSE << <<RowStart(text, row) + query.a[2],
                                  RowStart(text, row)
                                    + Min(query.a[2] + 1,
                                          Len(RowText(text, row)))>> >>

\* Anchor == cursor in the middle of a row, in visual mode: one character is
\* selected.
C18_Witness ==
    /\ SameSpot /\ query.mode = "v"
    /\ query.a[2] > 0 /\ query.a[2] < EncodedLen(RowText(text, query.a[1]))
    /\ answer = << <<Spot, Spot + 1>> >>

\* A sync_to_vim pass from the current state that replaces the engine buffer
\* and returns leaves vim_changes at the buffer's tick, and a sync_from_vim
\* right after it replaces no document text.
PushIsNotEchoed ==
    loaded
        => \A force \in BOOLEAN, st \in Statuses, st2 \in Statuses :
            LET r == sync_to_vim(St, force, st)
            IN  (HasCall(r, "buf_set") /\ r.ret # "raise")
                    => /\ r.vim_changes = r.tick
                       /\ sync_from_vim(r, TRUE, st2).replaced = 0
                       /\ sync_from_vim(r, TRUE, st2).text = r.text

\* C19: after a sync_to_vim pass that pushed the document text, vim_changes
\* equals the buffer's tick and a sync_from_vim that follows replaces no text;
\* vim_changes never exceeds the tick, and never decreases.
C19_NoEcho ==
    /\ [](PushIsNotEchoed /\ (vim_changes # None => vim_changes <= tick))
    /\ [][vim_changes # None
            => (vim_changes' # None /\ vim_changes' >= vim_changes)]_vars

\* The second push of a binding has just been made: the buffer holds the
\* edited document and vim_changes is at its tick.
C19_Witness ==
    /\ loaded /\ actual_mode /\ pushed /\ change_count > 0
    /\ tick >= 2 /\ vim_changes = tick
    /\ lines = Split(text) /\ ~changed(St)

\* The document was pushed, then edited: the edit is pending and the engine
\* buffer does not hold it.
EditPending ==
    /\ loaded /\ actual_mode /\ buf # None
    /\ pushed /\ sub_changes # None
    /\ changed(St) /\ text # Join(lines)

\* The pending edit is still in the document and still counted as unpushed.
EditKept(r) == r.ret # "raise" => (r.text = text /\ changed(r))

\* C20: no host edit is lost: when the document changed after the last push
\* and sync_from_vim runs (directly, from press, or as the deferred update)
\* before the document was pushed, the edit is neither overwritten by engine
\* text nor marked as synchronized.
C20_NoEditLost ==
    EditPending
        => \A eng \in Presses, st \in Statuses :
            /\ EditKept(sync_from_vim(St, TRUE, st))
            /\ EditKept(update(St, st))
            /\ eng.ready => EditKept(press(St, TRUE, eng, st))

\* The threads that took a key off the queue and have not yet entered
\* neo.vim.press with it, and the keys they hold.
Dequeued == {t \in Threads : pc[t] = "press"}
Held ==
    IF Dequeued = {} THEN <<>>
    ELSE <<local[CHOOSE t \in Dequeued : TRUE].key>>

PressInProgress == \E t \in Threads : local[t].op = "press"

\* C21: under any interleaving of press() calls on one binding, the keys
\* handed to the engine, then the key taken off the queue and not yet handed
\* over, then the keys still queued, are exactly the keys enqueued, in the
\* order they were enqueued (so keys are delivered first in, first out, each
\* once); a thread at the dequeue, or at update's lock inside press, never
\* waits; and when no press call is in progress the queue is empty and every
\* enqueued key was delivered.
C21_KeysInOrder ==
    /\ Cardinality(Dequeued) <= 1
    /\ enqueued = delivered \o Held \o keyq
    /\ \A t \in Threads :
        /\ pc[t] = "get" => keyq # <<>>
        /\ (pc[t] = "update_lock" /\ local[t].op = "press") => can_acquire(t)
    /\ ~PressInProgress => (keyq = <<>> /\ delivered = enqueued)

\* Three presses overlapped: two different keys were delivered in turn, the
\* second is inside the engine, and a third press waits for the lock with its
\* key queued.
C21_Witness ==
    \E t, u \in Threads :
        /\ t # u /\ pc[t] = "pressing" /\ pc[u] = "lock"
        /\ delivered = <<"j", "x">> /\ keyq = <<"j">>
        /\ enqueued = <<"j", "x", "j">>

\* The rectangle asked about lies in rows that all reach its right edge.
RowsReachRight ==
    \A row \in BlockTop..BlockBot : Len(RowText(text, row)) >= BlockRight

\* C22: a block selection that visual() gives in mode 'visual block' for an
\* anchor and a cursor, over rows all at least as long as the rectangle's
\* right edge, comes back as the same list of regions when sel_to_vim encodes
\* it under drag kind 'columns' and visual() decodes the 0-based anchor and
\* cursor, whichever corners the anchor and the cursor are.
C22_BlockRoundTrip ==
    (query.op = "select_columns" /\ RowsReachRight)
        => answer = visual(text, "^V", query.a, query.b)

====
